---- MODULE Spec2Model ----
(***************************************************************************)
(* A model of the Anya shopping guardian: the agent tools over the         *)
(* database (app/agents/tools.py) and the MVP web routes over the          *)
(* in-memory storage (app/main.py).  Amounts are integers (whole rupees),  *)
(* one tick of the clock is one day, and a calendar month is               *)
(* TicksPerMonth ticks long.                                               *)
(***************************************************************************)
EXTENDS Integers, Sequences, FiniteSets, TLC

\* ------------------------------------------------------------- bounds
\* Rows of the Transaction table, rows of the Goal table (in the status runs
\* and in the ledger runs), the last instant of the clock, the length of a
\* month, the transactions of the in-memory storage, and the records of both
\* stores together in the aggregator runs.
MaxTx == 2
MaxGoals == 2
MaxLedgerGoals == 1
MaxTime == 2
TicksPerMonth == 2
MaxLedger == 2
MaxRecords == 2

\* ------------------------------------------------------------- values
\* Python's Optional: None is the empty tuple, a present value x is <<x>>.
None == <<>>
Some(x) == <<x>>
\* Python truthiness of an Optional number: None and 0 are falsy.
Truthy(o) == o # None /\ o[1] # 0

UserIds == {"u1", "u2"}

\* The calls the model makes: set_saving_goal(title, target_amount,
\* deadline_days, month_nonessential_budget) and add_transaction(amount,
\* merchant, category), each for a user.
\* The status runs: goals with a budget, without one and with a budget of 0.
GoalCalls ==
    {<<"u1", "laptop", 4, None, Some(3)>>,
     <<"u1", "", 0, Some(0), None>>,
     <<"u1", "phone", 4, None, Some(0)>>}
StatusTransactionCalls ==
    {<<"u1", 1, "amazon", "Food">>,
     <<"u1", 2, "amazon", "food">>}
StatusReaders == {"u1"}
\* The ledger runs: categories in either case, unknown ones, a negative amount.
LedgerGoalCalls == {<<"u1", "", 4, Some(1), Some(3)>>}
TransactionCalls ==
    {<<"u1", 1, "amazon", "Food">>,
     <<"u1", -1, "amazon", "Food">>,
     <<"u1", 2, "amazon", "bills">>,
     <<"u1", 1, "amazon", "xyz">>,
     <<"u2", 2, "amazon", "Food">>}

\* The requests the model makes: POST /set-goal (user_id, month_saving_goal,
\* month_nonessential_budget) and POST /add-transaction (user_id, amount,
\* merchant, category).
SetGoalCalls ==
    {<<"u1", 4, Some(3)>>, <<"u1", 4, None>>, <<"u2", 0, Some(3)>>}
AddTxCalls ==
    {<<"u1", 1, "amazon", "food">>,
     <<"u1", 2, "flipkart", "shopping">>,
     <<"u1", 2, "jio", "bills">>,
     <<"u2", 2, "amazon", "food">>}

AggregatorTransactionCalls ==
    {<<"u1", 1, "amazon", "Food">>,
     <<"u1", 2, "amazon", "bills">>,
     <<"u2", 2, "amazon", "food">>}
AggregatorSetGoalCalls == {<<"u1", 4, Some(3)>>, <<"u2", 0, Some(3)>>}
AggregatorAddTxCalls ==
    {<<"u1", 1, "amazon", "food">>,
     <<"u1", 2, "jio", "bills">>,
     <<"u2", 2, "amazon", "food">>}

\* settings.comfort_zone_threshold as a fraction <<numerator, denominator>>.
DefaultThreshold == <<1, 2>>
Thresholds == {<<1, 4>>, <<1, 2>>}

\* TransactionCategory[name]: the enum member of that name, as its value;
\* a name that is no member raises KeyError.
CategoryNames == {"SHOPPING", "FOOD", "ENTERTAINMENT", "TRANSPORT", "BILLS", "OTHER"}
TransactionCategory(name) ==
    CASE name = "SHOPPING" -> "shopping"
      [] name = "FOOD" -> "food"
      [] name = "ENTERTAINMENT" -> "entertainment"
      [] name = "TRANSPORT" -> "transport"
      [] name = "BILLS" -> "bills"
      [] name = "OTHER" -> "other"

\* str.upper() on the strings the model uses.
Upper(s) ==
    CASE s = "Food" -> "FOOD"
      [] s = "food" -> "FOOD"
      [] s = "bills" -> "BILLS"
      [] s = "xyz" -> "XYZ"
      [] s = "" -> ""
      [] OTHER -> s

VARIABLES now, settings, users, goals, transactions, USERS, LEDGER, result, client, history

vars == <<now, settings, users, goals, transactions, USERS, LEDGER, result, client, history>>

\* MonthStart as a rolling window that starts at the instant itself.
MonthStartRolling(t) == t

\* datetime(year=now.year, month=now.month, day=1)
MonthStart(t) == (t \div TicksPerMonth) * TicksPerMonth

\* datetime.isoformat()
IsoFormat(t) == <<"iso", t>>

NonEssential == {"shopping", "food", "entertainment"}

\* ------------------------------------------------------------- database
\* User rows, keyed by telegram_id; a row's id stands for its telegram_id.
UserIdOf(us, telegram_id) == CHOOSE i \in us : i = telegram_id

GetOrCreateUser(us, telegram_id) ==
    IF telegram_id \in us THEN us ELSE us \cup {telegram_id}

\* A row added at position p of the table's scan order.
InsertAt(rows, p, row) ==
    [i \in 1..(Len(rows) + 1) |->
        IF i < p THEN rows[i] ELSE IF i = p THEN row ELSE rows[i - 1]]

\* query(Goal).filter(user_id == uid, status == ACTIVE)
ActiveGoals(gs, uid) ==
    SelectSeq(gs, LAMBDA g : g.user_id = uid /\ g.status = "active")

\* .first(): the first row of the scan, or None
First(rows) == IF Len(rows) = 0 THEN None ELSE Some(rows[1])

\* MonthTransactions with the first instant of the month left out.
MonthTransactionsAfterStart(txs, uid, month_start) ==
    SelectSeq(txs, LAMBDA t : t.user_id = uid /\ t.timestamp > month_start)

\* query(Transaction).filter(user_id == uid, timestamp >= month_start).all()
MonthTransactions(txs, uid, month_start) ==
    SelectSeq(txs, LAMBDA t : t.user_id = uid /\ t.timestamp >= month_start)

\* ------------------------------------------------------------- agent tools
\* ParseCategory without the upper(): the name is looked up as given.
ParseCategoryExact(category) ==
    IF category \in CategoryNames
    THEN TransactionCategory(category)
    ELSE TransactionCategory("OTHER")

\* add_transaction: TransactionCategory[category.upper()], KeyError -> OTHER
ParseCategory(category) ==
    IF Upper(category) \in CategoryNames
    THEN TransactionCategory(Upper(category))
    ELSE TransactionCategory("OTHER")

\* analyze_spending_pattern: the loop over the month's transactions
RECURSIVE CategoryTotals(_)
CategoryTotals(txs) ==
    IF Len(txs) = 0 THEN [c \in {} |-> 0]
    ELSE LET before == CategoryTotals(SubSeq(txs, 1, Len(txs) - 1))
             tx == txs[Len(txs)]
         IN  [c \in (DOMAIN before) \cup {tx.category} |->
                 (IF c \in DOMAIN before THEN before[c] ELSE 0)
                 + (IF c = tx.category THEN tx.amount ELSE 0)]

\* TotalNonessential with every category counted.
RECURSIVE TotalAllCategories(_)
TotalAllCategories(txs) ==
    IF Len(txs) = 0 THEN 0
    ELSE TotalAllCategories(SubSeq(txs, 1, Len(txs) - 1)) + txs[Len(txs)].amount

RECURSIVE TotalNonessential(_)
TotalNonessential(txs) ==
    IF Len(txs) = 0 THEN 0
    ELSE TotalNonessential(SubSeq(txs, 1, Len(txs) - 1))
         + (IF txs[Len(txs)].category \in NonEssential THEN txs[Len(txs)].amount ELSE 0)

\* The result records carry, beside what the code returns, the caller's user
\* (self.user_id), the local month_start and, for a status, the id of the
\* goal row the query returned.
analyze_spending_pattern(txs, gs, uid, t) ==
    LET month_start == MonthStart(t)
        month_txs == MonthTransactions(txs, uid, month_start)
        total_nonessential == TotalNonessential(month_txs)
        active_goal == First(ActiveGoals(gs, uid))
        budget == IF active_goal # None THEN active_goal[1].month_nonessential_budget
                  ELSE None
        remaining_budget == IF Truthy(budget) THEN Some(budget[1] - total_nonessential)
                            ELSE None
    IN  [op |-> "analyze_spending_pattern",
         user_id |-> uid,
         month_start |-> month_start,
         total_nonessential |-> total_nonessential,
         category_breakdown |-> CategoryTotals(month_txs),
         month_nonessential_budget |-> budget,
         remaining_budget |-> remaining_budget,
         transaction_count |-> Len(month_txs)]

\* BudgetVerdict with the GREEN boundary excluded (remaining > target * threshold).
BudgetVerdictStrict(remaining, saving_goal, threshold) ==
    IF remaining * threshold[2] > saving_goal * threshold[1]
    THEN [verdict |-> "GREEN", label |-> "on track"]
    ELSE IF remaining >= 0
    THEN [verdict |-> "ORANGE", label |-> "borderline"]
    ELSE [verdict |-> "RED", label |-> "over budget"]

\* check_budget_status: the verdict of a remaining budget
BudgetVerdict(remaining, saving_goal, threshold) ==
    IF remaining * threshold[2] >= saving_goal * threshold[1]
    THEN [verdict |-> "GREEN", label |-> "on track"]
    ELSE IF remaining >= 0
    THEN [verdict |-> "ORANGE", label |-> "borderline"]
    ELSE [verdict |-> "RED", label |-> "over budget"]

\* month_nonessential_budget or 0
BudgetOrZero(b) == IF Truthy(b) THEN b[1] ELSE 0

check_budget_status(txs, gs, uid, t, cfg) ==
    LET spending == analyze_spending_pattern(txs, gs, uid, t)
        active_goal == First(ActiveGoals(gs, uid))
    IN  IF active_goal = None
        THEN [op |-> "check_budget_status", user_id |-> uid,
              month_start |-> spending.month_start,
              verdict |-> "NO_GOAL", message |-> "No active goal set"]
        ELSE LET total_spent == spending.total_nonessential
                 budget == BudgetOrZero(active_goal[1].month_nonessential_budget)
                 remaining == budget - total_spent
                 saving_goal == active_goal[1].target_amount
                 v == BudgetVerdict(remaining, saving_goal, cfg.comfort_zone_threshold)
             IN  [op |-> "check_budget_status", user_id |-> uid,
                  month_start |-> spending.month_start,
                  verdict |-> v.verdict, label |-> v.label,
                  total_spent |-> total_spent, budget |-> budget,
                  remaining |-> remaining, saving_goal |-> saving_goal,
                  goal_title |-> active_goal[1].title,
                  goal_id |-> active_goal[1].id]

\* AgentTools(db, u).set_saving_goal(title, target_amount, deadline_days, budget)
SetSavingGoal(u, title, target_amount, deadline_days, budget) ==
    /\ users' = GetOrCreateUser(users, u)
    /\ LET deadline == IF Truthy(deadline_days) THEN Some(now + deadline_days[1])
                       ELSE None
           goal == [id |-> Len(goals) + 1,
                    user_id |-> UserIdOf(users', u),
                    title |-> title,
                    target_amount |-> target_amount,
                    deadline |-> deadline,
                    month_nonessential_budget |-> budget,
                    status |-> "active"]
       IN  /\ \E p \in 1..(Len(goals) + 1) : goals' = InsertAt(goals, p, goal)
           /\ result' = [op |-> "set_saving_goal",
                         user_id |-> goal.user_id,
                         goal_id |-> goal.id,
                         title |-> goal.title,
                         target_amount |-> goal.target_amount,
                         deadline |-> IF goal.deadline # None
                                      THEN Some(IsoFormat(goal.deadline[1])) ELSE None,
                         status |-> goal.status]
    /\ UNCHANGED <<now, settings, transactions, USERS, LEDGER, client, history>>

\* AgentTools(db, u).add_transaction(amount, merchant, category)
AddTransaction(u, amount, merchant, category) ==
    /\ users' = GetOrCreateUser(users, u)
    /\ LET transaction == [id |-> Len(transactions) + 1,
                           user_id |-> UserIdOf(users', u),
                           amount |-> amount,
                           merchant |-> merchant,
                           category |-> ParseCategory(category),
                           timestamp |-> now]
       IN  /\ transactions' = Append(transactions, transaction)
           /\ result' = [op |-> "add_transaction",
                         user_id |-> transaction.user_id,
                         transaction_id |-> transaction.id,
                         amount |-> transaction.amount,
                         merchant |-> transaction.merchant,
                         category |-> transaction.category,
                         timestamp |-> IsoFormat(transaction.timestamp)]
    /\ UNCHANGED <<now, settings, goals, USERS, LEDGER, client, history>>

\* AgentTools(db, u).analyze_spending_pattern()
AnalyzeSpendingPattern(u) ==
    /\ users' = GetOrCreateUser(users, u)
    /\ result' = analyze_spending_pattern(transactions, goals, UserIdOf(users', u), now)
    /\ UNCHANGED <<now, settings, goals, transactions, USERS, LEDGER, client, history>>

\* AgentTools(db, u).check_budget_status()
CheckBudgetStatus(u) ==
    /\ users' = GetOrCreateUser(users, u)
    /\ result' = check_budget_status(transactions, goals, UserIdOf(users', u), now,
                                      settings)
    /\ UNCHANGED <<now, settings, goals, transactions, USERS, LEDGER, client, history>>

\* ------------------------------------------------------------- storage
\* storage.get_user(user_id)
get_user(us, user_id) == us[user_id]

\* storage.update_goal(user_id, saving_goal, nonessential_budget)
update_goal(us, user_id, saving_goal, nonessential_budget) ==
    [us EXCEPT ![user_id] = Some([user_id |-> user_id,
                                  month_saving_goal |-> saving_goal,
                                  month_nonessential_budget |-> nonessential_budget])]

\* storage.add_transaction(user_id, amount, merchant, category): the record
NewTransaction(user_id, amount, merchant, category, t) ==
    [user_id |-> user_id, amount |-> amount, merchant |-> merchant,
     category |-> category, timestamp |-> t]

\* storage.get_user_transactions(user_id)
get_user_transactions(ledger, user_id) ==
    SelectSeq(ledger, LAMBDA tx : tx.user_id = user_id)

\* ------------------------------------------------------------- web routes
RECURSIVE MonthNonessentialTotal(_, _)
MonthNonessentialTotal(txs, month_start) ==
    IF Len(txs) = 0 THEN 0
    ELSE LET tx == txs[Len(txs)]
         IN  MonthNonessentialTotal(SubSeq(txs, 1, Len(txs) - 1), month_start)
             + (IF tx.timestamp >= month_start /\ tx.category \in NonEssential
                THEN tx.amount ELSE 0)

calc_month_nonessential_spend(ledger, user_id, t) ==
    MonthNonessentialTotal(get_user_transactions(ledger, user_id), MonthStart(t))

\* evaluate_purchase: the verdict of the remaining budget after the purchase
PurchaseVerdict(remaining_after, month_saving_goal) ==
    IF remaining_after * 2 >= month_saving_goal
    THEN [verdict |-> "GREEN", label |-> "probably okay for your saving goal"]
    ELSE IF remaining_after >= 0
    THEN [verdict |-> "ORANGE", label |-> "borderline for your saving goal"]
    ELSE [verdict |-> "RED", label |-> "hurting your saving goal this month"]

\* evaluate_purchase with the remaining budget clamped at 0 before the verdict.
evaluate_purchase_clamped(user, tx, month_spend_nonessential_before) ==
    LET nonessential_budget == user.month_nonessential_budget
    IN  IF nonessential_budget = None
        THEN [raised |-> "TypeError"]
        ELSE LET remaining_before == nonessential_budget[1] - month_spend_nonessential_before
                 remaining_after == IF remaining_before - tx.amount >= 0
                                    THEN remaining_before - tx.amount ELSE 0
                 v == PurchaseVerdict(remaining_after, user.month_saving_goal)
             IN  [raised |-> "", verdict |-> v.verdict, label |-> v.label,
                  remaining_after |-> remaining_after]

\* None - float raises TypeError
evaluate_purchase(user, tx, month_spend_nonessential_before) ==
    LET nonessential_budget == user.month_nonessential_budget
    IN  IF nonessential_budget = None
        THEN [raised |-> "TypeError"]
        ELSE LET remaining_before == nonessential_budget[1] - month_spend_nonessential_before
                 remaining_after == remaining_before - tx.amount
                 v == PurchaseVerdict(remaining_after, user.month_saving_goal)
             IN  [raised |-> "", verdict |-> v.verdict, label |-> v.label,
                  remaining_after |-> remaining_after]

Max(a, b) == IF a >= b THEN a ELSE b

\* format(x, ".0f")
FormatF0(x) == <<"%.0f", x>>

Emoji(verdict) ==
    CASE verdict = "GREEN" -> "green circle"
      [] verdict = "ORANGE" -> "orange circle"
      [] verdict = "RED" -> "red circle"
      [] OTHER -> "white circle"

build_verdict_message(user, tx, verdict, label, remaining_after) ==
    [emoji |-> Emoji(verdict),
     spent |-> tx.amount,
     merchant |-> tx.merchant,
     month_goal |-> user.month_saving_goal,
     label |-> label,
     budget_left |-> FormatF0(Max(remaining_after, 0))]

\* POST /set-goal
set_goal(user_id, month_saving_goal, month_nonessential_budget) ==
    /\ USERS' = update_goal(USERS, user_id, month_saving_goal, month_nonessential_budget)
    /\ result' = [op |-> "set_goal", user_id |-> user_id,
                  message |-> "Goals updated", user |-> USERS'[user_id][1]]
    /\ UNCHANGED <<now, settings, users, goals, transactions, LEDGER, client, history>>

\* POST /add-transaction; the clock is read when the transaction is stored and
\* again when the month's spend is computed.  The response record carries,
\* beside what the route returns, the locals month_start and month_spend_total.
add_tx(user_id, amount, merchant, category) ==
    LET user == get_user(USERS, user_id)
    IN  IF user = None
        THEN /\ result' = [op |-> "add_tx", user_id |-> user_id, ok |-> FALSE,
                           raised |-> "", error |-> "User not found"]
             /\ UNCHANGED <<now, settings, users, goals, transactions, USERS, LEDGER, client, history>>
        ELSE /\ LET tx == NewTransaction(user_id, amount, merchant, category, now)
                IN  /\ LEDGER' = Append(LEDGER, tx)
                    /\ \E t \in {now, IF now < MaxTime THEN now + 1 ELSE now} :
                         /\ now' = t
                         /\ LET month_spend_total ==
                                    calc_month_nonessential_spend(LEDGER', user_id, t)
                                month_spend_before == month_spend_total - amount
                                e == evaluate_purchase(user[1], tx, month_spend_before)
                            IN  IF e.raised # ""
                                THEN result' = [op |-> "add_tx", user_id |-> user_id,
                                                ok |-> FALSE, raised |-> e.raised,
                                                error |-> ""]
                                ELSE result' =
                                       [op |-> "add_tx", user_id |-> user_id,
                                        ok |-> TRUE, raised |-> "",
                                        month_start |-> MonthStart(t),
                                        month_spend_total |-> month_spend_total,
                                        transaction |-> tx,
                                        verdict |-> e.verdict,
                                        verdict_label |-> e.label,
                                        month_spend_nonessential_before |-> month_spend_before,
                                        remaining_nonessential_budget_after |-> e.remaining_after,
                                        notification_message |->
                                            build_verdict_message(user[1], tx, e.verdict,
                                                                  e.label, e.remaining_after),
                                        notify_status |-> "telegram_send_triggered"]
             /\ UNCHANGED <<settings, users, goals, transactions, USERS, client, history>>

\* The clock: datetime.utcnow() moves on between calls.
Tick ==
    /\ now < MaxTime
    /\ now' = now + 1
    /\ UNCHANGED <<settings, users, goals, transactions, USERS, LEDGER, result, client, history>>

\* ---------------------------------------------------------------------------
\* The conversational layer: MCPAgent (src/app/agents/mcp.py).
\* A str value is a tuple of its parts; Text(s) is the string with the one
\* literal part s, and a formatted number is the part FormatF0(x).
\* ---------------------------------------------------------------------------

\* Messages handled per user in a run.
MaxTurns == 1

Text(s) == <<s>>

\* What users write to the agent.
Messages == {"Save for a laptop", "My progress", "what have I spent", "hello"}

AgentUsers == {"u1"}

AgentGoalCalls == {<<"u1", "laptop", 4, None, Some(3)>>}

AgentTransactionCalls == {<<"u1", 1, "amazon", "Food">>}

\* self.client after MCPAgent.__init__: a Groq client when settings.groq_api_key
\* is set, None otherwise.
Clients == {None, Some("Groq")}

\* What client.chat.completions.create can do: raise, or return a completion
\* whose choices may be empty and whose message content may be None.
Completions ==
    {[raised |-> "APIConnectionError", choices |-> <<>>],
     [raised |-> "RateLimitError", choices |-> <<>>],
     [raised |-> "", choices |-> <<>>],
     [raised |-> "", choices |-> <<[content |-> None]>>],
     [raised |-> "", choices |-> <<[content |-> Text("Here is my advice.")]>>]}

\* The closed set of intents.
Intents == {"set_goal", "check_status", "analyze_spending", "general_chat"}

\* str.lower() on the messages the model uses.
StrLower(s) ==
    CASE s = "Save for a laptop" -> "save for a laptop"
      [] s = "My progress" -> "my progress"
      [] s = "what have I spent" -> "what have i spent"
      [] OTHER -> s

\* word in s, for the keywords of the agent and the lowered messages.
Contains(s, word) ==
    CASE s = "save for a laptop" -> word \in {"save"}
      [] s = "my progress" -> word \in {"progress"}
      [] s = "what have i spent" -> word \in {"spent"}
      [] OTHER -> FALSE

\* session_manager.get_history(user_id, limit): the last limit entries.
get_history(h, uid, limit) ==
    LET n == Len(h[uid])
    IN  IF n <= limit THEN h[uid] ELSE SubSeq(h[uid], n - limit + 1, n)

\* session_manager.add_to_history(user_id, role, content)
add_to_history(h, uid, role, content) ==
    [h EXCEPT ![uid] = Append(@, [role |-> role, content |-> content])]

\* AgentTools.get_active_goals(): current_amount keeps its column default.
get_active_goals(gs, uid) ==
    LET active == ActiveGoals(gs, uid)
    IN  [i \in 1..Len(active) |->
            [goal_id |-> active[i].id,
             title |-> active[i].title,
             target_amount |-> active[i].target_amount,
             current_amount |-> 0,
             progress_percentage |-> 0,
             deadline |-> IF active[i].deadline # None
                          THEN Some(IsoFormat(active[i].deadline[1])) ELSE None,
             month_nonessential_budget |-> active[i].month_nonessential_budget]]

\* MCPAgent.observe(user_message)
observe(h, txs, gs, uid, t, cfg, user_message) ==
    [user_message |-> user_message,
     history |-> get_history(h, uid, 5),
     goals |-> get_active_goals(gs, uid),
     budget_status |-> check_budget_status(txs, gs, uid, t, cfg),
     conversation_state |-> None]

\* MCPAgent._format_context(context): the parts of the context text.
format_context(context) ==
    LET goal_lines ==
            [i \in 1..Len(context.goals) |->
                <<context.goals[i].title,
                  FormatF0(context.goals[i].current_amount),
                  FormatF0(context.goals[i].target_amount),
                  FormatF0(context.goals[i].progress_percentage)>>]
        goals_part == IF Len(context.goals) > 0
                      THEN <<"Active Goals:", goal_lines>>
                      ELSE <<"No active goals set.", <<>>>>
        budget == context.budget_status
    IN  IF budget.verdict # "NO_GOAL"
        THEN <<goals_part,
               <<"Budget Status:", budget.verdict, budget.label,
                 FormatF0(budget.total_spent), FormatF0(budget.budget),
                 FormatF0(budget.remaining)>>>>
        ELSE <<goals_part>>

\* MCPAgent._detect_intent(user_message, assistant_response)
detect_intent(user_message, assistant_response) ==
    LET user_lower == StrLower(user_message)
    IN  IF \E word \in {"goal", "save", "want to buy", "planning"} :
               Contains(user_lower, word)
        THEN "set_goal"
        ELSE IF \E word \in {"status", "how am i", "progress", "doing"} :
                    Contains(user_lower, word)
        THEN "check_status"
        ELSE IF \E word \in {"spent", "spending", "budget", "transactions"} :
                    Contains(user_lower, word)
        THEN "analyze_spending"
        ELSE "general_chat"

\* MCPAgent._fallback_reasoning(context)
fallback_reasoning(context) ==
    LET user_message == StrLower(context.user_message)
        budget == context.budget_status
    IN  IF Contains(user_message, "goal") \/ Contains(user_message, "save")
        THEN [raised |-> "", intent |-> "set_goal",
              response |-> Text("I'd love to help you set a goal! What are you saving for?"),
              actions |-> <<>>]
        ELSE IF Contains(user_message, "status") \/ Contains(user_message, "progress")
        THEN [raised |-> "", intent |-> "check_status",
              response |-> IF budget.verdict # "NO_GOAL"
                           THEN <<"You've spent ", FormatF0(budget.total_spent),
                                  " out of ", FormatF0(budget.budget),
                                  " this month. You have ", FormatF0(budget.remaining),
                                  " left!">>
                           ELSE Text("You haven't set a goal yet. Want to create one?"),
              actions |-> <<>>]
        ELSE [raised |-> "", intent |-> "general_chat",
              response |-> Text("I'm here to help you with your financial goals! You can ask me about your spending, set goals, or check your progress."),
              actions |-> <<>>]

\* The request sent to the language model: the system prompt, the history,
\* the context and the user's message.
BuildMessages(context) ==
    <<[role |-> "system", content |-> Text("FINANCIAL_ADVISOR_SYSTEM_PROMPT")]>>
    \o context.history
    \o <<[role |-> "system", content |-> <<"Current context:", format_context(context)>>],
         [role |-> "user", content |-> Text(context.user_message)]>>

\* reason without its except clause: what the call raises reaches the caller.
reason_propagating(cl, context, completion) ==
    IF cl = None
    THEN fallback_reasoning(context)
    ELSE IF completion.raised # ""
    THEN [raised |-> completion.raised]
    ELSE IF Len(completion.choices) = 0
    THEN [raised |-> "IndexError"]
    ELSE [raised |-> "",
          intent |-> detect_intent(context.user_message,
                                   completion.choices[1].content),
          response |-> completion.choices[1].content,
          actions |-> <<>>]

\* MCPAgent.reason(context), where completion is what the call to the language
\* model does with BuildMessages(context).
reason(cl, context, completion) ==
    IF cl = None
    THEN fallback_reasoning(context)
    ELSE IF completion.raised # ""
    THEN fallback_reasoning(context)
    ELSE IF Len(completion.choices) = 0
    THEN fallback_reasoning(context)
    ELSE [raised |-> "",
          intent |-> detect_intent(context.user_message,
                                   completion.choices[1].content),
          response |-> completion.choices[1].content,
          actions |-> <<>>]

\* MCPAgent.act(reasoning, context): the history after the two entries.
act(h, uid, reasoning, context) ==
    add_to_history(add_to_history(h, uid, "user", Text(context.user_message)),
                   uid, "assistant", reasoning.response)

\* What the language model did for a call: never called, failed, or answered.
Upstream(cl, completion) ==
    IF cl = None THEN "absent"
    ELSE IF completion.raised # "" \/ Len(completion.choices) = 0 THEN "failed"
    ELSE "ok"

\* MCPAgent(db, u).process_message(user_message)
ProcessMessage(u, user_message) ==
    /\ users' = GetOrCreateUser(users, u)
    /\ \E completion \in Completions :
          LET uid == UserIdOf(users', u)
              context == observe(history, transactions, goals, uid, now, settings,
                                 user_message)
              reasoning == reason(client, context, completion)
              upstream == Upstream(client, completion)
          IN  \* without a client no call is made: one completion stands for none
              /\ client # None \/ completion = [raised |-> "", choices |-> <<>>]
              /\ IF reasoning.raised # ""
                 THEN /\ history' = history
                      /\ result' = [op |-> "process_message", user_id |-> uid,
                                    user_message |-> user_message,
                                    upstream |-> upstream,
                                    prompt_len |-> Len(BuildMessages(context)),
                                    raised |-> reasoning.raised,
                                    intent |-> "", response |-> None]
                 ELSE /\ history' = act(history, uid, reasoning, context)
                      /\ result' = [op |-> "process_message", user_id |-> uid,
                                    user_message |-> user_message,
                                    upstream |-> upstream,
                                    prompt_len |-> IF client # None
                                                   THEN Len(BuildMessages(context))
                                                   ELSE 0,
                                    raised |-> "",
                                    intent |-> reasoning.intent,
                                    response |-> reasoning.response]
    /\ UNCHANGED <<now, settings, goals, transactions, USERS, LEDGER, client>>

Init ==
    /\ now = 0
    /\ settings \in [comfort_zone_threshold : Thresholds]
    /\ users = {}
    /\ goals = <<>>
    /\ transactions = <<>>
    /\ USERS = [u \in UserIds |-> None]
    /\ LEDGER = <<>>
    /\ result = [op |-> "none"]
    /\ client = None
    /\ history = [u \in UserIds |-> <<>>]

\* The status runs: goals, purchases and the budget status.
Next ==
    \/ \E c \in GoalCalls :
          Len(goals) < MaxGoals /\ SetSavingGoal(c[1], c[2], c[3], c[4], c[5])
    \/ \E c \in StatusTransactionCalls :
          Len(transactions) < MaxTx /\ AddTransaction(c[1], c[2], c[3], c[4])
    \/ \E u \in StatusReaders : CheckBudgetStatus(u)
    \/ Tick

Spec == Init /\ [][Next]_vars

InitMain == Init /\ settings.comfort_zone_threshold = DefaultThreshold

\* The ledger runs: recorded transactions and the spending analysis.
NextLedger ==
    \/ \E c \in LedgerGoalCalls :
          Len(goals) < MaxLedgerGoals /\ SetSavingGoal(c[1], c[2], c[3], c[4], c[5])
    \/ \E c \in TransactionCalls :
          Len(transactions) < MaxTx /\ AddTransaction(c[1], c[2], c[3], c[4])
    \/ \E u \in UserIds : AnalyzeSpendingPattern(u)
    \/ Tick

SpecLedger == InitMain /\ [][NextLedger]_vars

\* The web routes alone, over the in-memory storage.
NextMain ==
    \/ \E c \in SetGoalCalls : set_goal(c[1], c[2], c[3])
    \/ \E c \in AddTxCalls :
          (get_user(USERS, c[1]) = None \/ Len(LEDGER) < MaxLedger)
          /\ add_tx(c[1], c[2], c[3], c[4])
    \/ Tick

SpecMain == InitMain /\ [][NextMain]_vars

\* The agent runs: the language-model client is configured or not.
InitAgent ==
    /\ now = 0
    /\ settings \in [comfort_zone_threshold : {DefaultThreshold}]
    /\ users = {}
    /\ goals = <<>>
    /\ transactions = <<>>
    /\ USERS = [u \in UserIds |-> None]
    /\ LEDGER = <<>>
    /\ result = [op |-> "none"]
    /\ client \in Clients
    /\ history = [u \in UserIds |-> <<>>]

\* A conversation over goals and transactions recorded meanwhile.
NextAgent ==
    \/ \E c \in AgentGoalCalls :
          Len(goals) + Len(transactions) < MaxRecords
          /\ SetSavingGoal(c[1], c[2], c[3], c[4], c[5])
    \/ \E c \in AgentTransactionCalls :
          Len(goals) + Len(transactions) < MaxRecords
          /\ AddTransaction(c[1], c[2], c[3], c[4])
    \/ \E u \in AgentUsers, m \in Messages :
          Len(history[u]) < 2 * MaxTurns /\ ProcessMessage(u, m)
    \/ Tick

SpecAgent == InitAgent /\ [][NextAgent]_vars

\* The two aggregators side by side: the agent's transactions and analysis,
\* and the web routes.
NextAggregators ==
    \/ \E c \in AggregatorTransactionCalls :
          Len(transactions) + Len(LEDGER) < MaxRecords
          /\ AddTransaction(c[1], c[2], c[3], c[4])
    \/ \E u \in UserIds : AnalyzeSpendingPattern(u)
    \/ \E c \in AggregatorSetGoalCalls : set_goal(c[1], c[2], c[3])
    \/ \E c \in AggregatorAddTxCalls :
          (get_user(USERS, c[1]) = None \/ Len(transactions) + Len(LEDGER) < MaxRecords)
          /\ add_tx(c[1], c[2], c[3], c[4])
    \/ Tick

SpecAggregators == InitMain /\ [][NextAggregators]_vars

\* ------------------------------------------------------------- properties
\* The sum of the amounts of the rows of txs at the indices in I.
RECURSIVE SumAt(_, _)
SumAt(txs, I) ==
    IF I = {} THEN 0
    ELSE LET i == CHOOSE j \in I : TRUE IN txs[i].amount + SumAt(txs, I \ {i})

\* The rows of a user stamped within the calendar month that starts at month_start.
InMonth(txs, uid, month_start) ==
    {i \in 1..Len(txs) : /\ txs[i].user_id = uid
                          /\ month_start <= txs[i].timestamp
                          /\ txs[i].timestamp < month_start + TicksPerMonth}

\* The month's non-essential spend of a user, by definition.
MonthlyNonessential(txs, uid, month_start) ==
    SumAt(txs, {i \in InMonth(txs, uid, month_start) : txs[i].category \in NonEssential})

GoalById(id) == CHOOSE g \in {goals[i] : i \in 1..Len(goals)} : g.id = id

IsStatus == result.op = "check_budget_status"
IsVerdict == IsStatus /\ result.verdict # "NO_GOAL"

\* C1: for an active goal with a configured budget and non-negative total_spent,
\* budget and target, check_budget_status reports remaining = budget - total_spent
\* and GREEN exactly when remaining >= target * threshold, ORANGE exactly when
\* 0 <= remaining < target * threshold, RED exactly when remaining < 0.
C1_VerdictTiers ==
    (/\ IsVerdict
     /\ GoalById(result.goal_id).month_nonessential_budget # None
     /\ result.total_spent >= 0 /\ result.budget >= 0 /\ result.saving_goal >= 0)
    => LET g == GoalById(result.goal_id)
           th == settings.comfort_zone_threshold
           total == MonthlyNonessential(transactions, result.user_id, result.month_start)
           remaining == g.month_nonessential_budget[1] - total
           comfortable == remaining * th[2] >= g.target_amount * th[1]
       IN  /\ result.total_spent = total
           /\ result.budget = g.month_nonessential_budget[1]
           /\ result.saving_goal = g.target_amount
           /\ result.remaining = remaining
           /\ (result.verdict = "GREEN") <=> comfortable
           /\ (result.verdict = "ORANGE") <=> (remaining >= 0 /\ ~comfortable)
           /\ (result.verdict = "RED") <=> (remaining < 0)

\* A status on the GREEN boundary: remaining = target * threshold, with money spent.
C1_Witness ==
    /\ IsVerdict
    /\ result.verdict = "GREEN"
    /\ result.saving_goal > 0 /\ result.total_spent > 0
    /\ GoalById(result.goal_id).month_nonessential_budget # None
    /\ result.remaining * settings.comfort_zone_threshold[2]
         = result.saving_goal * settings.comfort_zone_threshold[1]

\* C2: check_budget_status returns NO_GOAL exactly when the user has no active
\* goal or the goal has no configured monthly budget (null); a null budget is
\* never evaluated as GREEN, ORANGE or RED.
C2_NoGoalIffAbsent ==
    IsStatus =>
        LET active_goal == First(ActiveGoals(goals, result.user_id))
        IN  (result.verdict = "NO_GOAL")
            <=> (active_goal = None \/ active_goal[1].month_nonessential_budget = None)

\* C3: evaluate_purchase on the month's total before a purchase gives the tier
\* and the remaining budget that check_budget_status gives once the purchase
\* is recorded, under the configured comfort-zone threshold.
C3_ProspectiveMatchesRetrospective ==
    (/\ IsVerdict
     /\ GoalById(result.goal_id).month_nonessential_budget # None
     /\ Len(transactions) > 0
     /\ transactions[Len(transactions)].user_id = result.user_id
     /\ transactions[Len(transactions)].category \in NonEssential
     /\ transactions[Len(transactions)].timestamp >= result.month_start)
    => LET g == GoalById(result.goal_id)
           tx == transactions[Len(transactions)]
           user == [month_saving_goal |-> g.target_amount,
                    month_nonessential_budget |-> g.month_nonessential_budget]
           e == evaluate_purchase(user, tx, result.total_spent - tx.amount)
       IN  /\ e.raised = ""
           /\ e.verdict = result.verdict
           /\ e.remaining_after = result.remaining

\* C4: the monthly non-essential total of both aggregators is the sum of the
\* amounts of exactly the user's transactions in shopping, food or entertainment
\* stamped within the calendar month containing now (month_start <= t <
\* next month's start).
C4_MonthlyTotal ==
    /\ result.op = "analyze_spending_pattern"
        => result.total_nonessential
            = MonthlyNonessential(transactions, result.user_id, result.month_start)
    /\ (result.op = "add_tx" /\ result.ok)
        => result.month_spend_total
            = MonthlyNonessential(LEDGER, result.user_id, result.month_start)

\* An analysis that counts a purchase stamped at the first instant of the month
\* and leaves out a non-essential purchase of the month before.
C4_Witness ==
    /\ result.op = "analyze_spending_pattern"
    /\ result.total_nonessential > 0
    /\ result.month_start > 0
    /\ \E i, j \in 1..Len(transactions) :
          /\ transactions[i].user_id = result.user_id
          /\ transactions[i].category \in NonEssential
          /\ transactions[i].timestamp < result.month_start
          /\ transactions[j].user_id = result.user_id
          /\ transactions[j].category \in NonEssential
          /\ transactions[j].timestamp = result.month_start

\* The sum of the values of a category map.
RECURSIVE SumValues(_, _)
SumValues(f, S) ==
    IF S = {} THEN 0
    ELSE LET c == CHOOSE d \in S : TRUE IN f[c] + SumValues(f, S \ {c})

\* C5: the values of category_breakdown sum to total_nonessential plus the
\* totals of the categories outside shopping, food and entertainment;
\* transaction_count is the number of transactions in the window; with no
\* transaction in the window the analysis is 0, an empty map and 0.
C5_BreakdownSums ==
    result.op = "analyze_spending_pattern"
    => LET breakdown == result.category_breakdown
           in_window == InMonth(transactions, result.user_id, result.month_start)
       IN  /\ SumValues(breakdown, DOMAIN breakdown)
                = result.total_nonessential
                  + SumValues(breakdown, (DOMAIN breakdown) \ NonEssential)
           /\ result.transaction_count = Cardinality(in_window)
           /\ \A c \in DOMAIN breakdown :
                 breakdown[c] = SumAt(transactions,
                                      {i \in in_window : transactions[i].category = c})
           /\ in_window = {} => /\ result.total_nonessential = 0
                                 /\ DOMAIN breakdown = {}
                                 /\ result.transaction_count = 0

\* An analysis over a month with both a non-essential and another category.
C5_Witness ==
    /\ result.op = "analyze_spending_pattern"
    /\ result.transaction_count >= 2
    /\ (DOMAIN result.category_breakdown) \cap NonEssential # {}
    /\ (DOMAIN result.category_breakdown) \ NonEssential # {}

\* The newest goal of a user.
LatestGoalId(uid) ==
    LET ids == {goals[i].id : i \in {j \in 1..Len(goals) : goals[j].user_id = uid}}
    IN  CHOOSE m \in ids : \A k \in ids : k <= m

\* C6: after any sequence of set_saving_goal calls a user has at most one
\* ACTIVE goal, and check_budget_status evaluates against the goal set last.
C6_SingleActiveGoal ==
    /\ \A u \in UserIds : Len(ActiveGoals(goals, u)) <= 1
    /\ IsVerdict => result.goal_id = LatestGoalId(result.user_id)

\* str.lower() on the strings the model uses.
Lower(s) ==
    CASE s = "Food" -> "food"
      [] s = "Other" -> "other"
      [] OTHER -> s

\* The values of the closed category set.
CategoryValues == {TransactionCategory(n) : n \in CategoryNames}

\* C7: add_transaction stores a category string that names a member of the
\* category set, whatever its case, as that member and every other string as
\* OTHER, and appends and returns exactly one transaction record.
C7_CategoryFailsSoft ==
    [][\A c \in TransactionCalls :
          AddTransaction(c[1], c[2], c[3], c[4])
          => LET stored == transactions'[Len(transactions')]
                 expected == IF Lower(c[4]) \in CategoryValues THEN Lower(c[4])
                             ELSE "other"
             IN  /\ Len(transactions') = Len(transactions) + 1
                 /\ SubSeq(transactions', 1, Len(transactions)) = transactions
                 /\ stored.category = expected
                 /\ stored.amount = c[2] /\ stored.merchant = c[3]
                 /\ result'.op = "add_transaction"
                 /\ result'.transaction_id = stored.id
                 /\ result'.category = expected
                 /\ result'.amount = c[2] /\ result'.merchant = c[3]]_vars

\* Both cases stored: a category given in another case, and one that fell
\* back to OTHER.
C7_Witness ==
    /\ result.op = "add_transaction"
    /\ result.category = "other"
    /\ \E i \in 1..Len(transactions) : transactions[i].category = "food"

\* C8: set_saving_goal and add_transaction reject a negative amount or an empty
\* title with a ValidationFailure and leave goals and transactions unchanged.
C8_ValidatedMutations ==
    [][/\ \A c \in TransactionCalls :
            (c[2] < 0 /\ AddTransaction(c[1], c[2], c[3], c[4]))
            => (result'.op = "ValidationFailure" /\ UNCHANGED <<goals, transactions>>)
       /\ \A c \in LedgerGoalCalls :
            (c[2] = "" /\ SetSavingGoal(c[1], c[2], c[3], c[4], c[5]))
            => (result'.op = "ValidationFailure" /\ UNCHANGED <<goals, transactions>>)]_vars

\* The fields of a status that a caller sees.
StatusSeen(r) ==
    IF r.verdict = "NO_GOAL" THEN <<r.verdict, r.message>>
    ELSE <<r.verdict, r.label, r.total_spent, r.budget, r.remaining, r.saving_goal,
           r.goal_title>>

\* C9 as stated: a second check_budget_status for the same user, with no
\* transaction recorded since the first, gives the same result and leaves
\* goals and transactions unchanged.
C9_RepeatedStatusIdentical ==
    [][(IsStatus /\ CheckBudgetStatus(result.user_id))
        => (StatusSeen(result') = StatusSeen(result)
            /\ UNCHANGED <<goals, transactions>>)]_vars

\* C9 amended: a second check_budget_status for the same user in the same
\* calendar month, with no transaction recorded and no goal set since the
\* first, gives the same result and leaves goals and transactions unchanged.
C9_RepeatedStatusSameMonth ==
    [][(IsStatus /\ CheckBudgetStatus(result.user_id)
        /\ result.month_start \div TicksPerMonth = now \div TicksPerMonth)
        => (StatusSeen(result') = StatusSeen(result)
            /\ UNCHANGED <<goals, transactions>>)]_vars

\* A status with a verdict and money spent, a day after it was computed and
\* still in its month.
C9_Witness ==
    /\ IsVerdict
    /\ result.total_spent > 0
    /\ now > result.month_start
    /\ result.month_start \div TicksPerMonth = now \div TicksPerMonth

\* C10: add_tx reports the verdict and remaining_nonessential_budget_after of
\* the unclamped remaining budget, and only the message shows max(remaining, 0).
C10_ClampOnlyInMessage ==
    (result.op = "add_tx" /\ result.ok)
    => LET user == USERS[result.user_id][1]
           remaining_after == user.month_nonessential_budget[1]
                              - result.month_spend_nonessential_before
                              - result.transaction.amount
           shown == IF remaining_after < 0 THEN 0 ELSE remaining_after
       IN  /\ result.remaining_nonessential_budget_after = remaining_after
           /\ (result.verdict = "RED") <=> (remaining_after < 0)
           /\ (result.verdict = "GREEN") <=> (remaining_after * 2 >= user.month_saving_goal)
           /\ result.notification_message.budget_left = FormatF0(shown)

\* A RED verdict reported with a negative remaining budget and a displayed 0.
C10_Witness ==
    /\ result.op = "add_tx" /\ result.ok
    /\ result.verdict = "RED"
    /\ result.remaining_nonessential_budget_after < 0
    /\ result.notification_message.budget_left = FormatF0(0)

\* C12: add_tx reports as month_spend_nonessential_before the sum of the user's
\* non-essential transactions of the current month without the transaction just
\* recorded (so it is never negative), and a transaction in another category
\* leaves remaining_nonessential_budget_after at the budget minus that sum.
C12_SpendBeforeExcludesNew ==
    (result.op = "add_tx" /\ result.ok)
    => LET earlier == SubSeq(LEDGER, 1, Len(LEDGER) - 1)
           before == MonthlyNonessential(earlier, result.user_id, result.month_start)
           budget == USERS[result.user_id][1].month_nonessential_budget[1]
       IN  /\ LEDGER[Len(LEDGER)] = result.transaction
           /\ result.month_spend_nonessential_before = before
           /\ result.month_spend_nonessential_before >= 0
           /\ result.transaction.category \notin NonEssential
                => result.remaining_nonessential_budget_after = budget - before

\* The text the rule-based reasoning gives for an intent, from the status of
\* the user's budget.
RuleBasedResponse(intent, status) ==
    CASE intent = "set_goal" ->
            Text("I'd love to help you set a goal! What are you saving for?")
      [] intent = "check_status" /\ status.verdict = "NO_GOAL" ->
            Text("You haven't set a goal yet. Want to create one?")
      [] intent = "check_status" /\ status.verdict # "NO_GOAL" ->
            <<"You've spent ", FormatF0(status.total_spent),
              " out of ", FormatF0(status.budget),
              " this month. You have ", FormatF0(status.remaining), " left!">>
      [] OTHER ->
            Text("I'm here to help you with your financial goals! You can ask me about your spending, set goals, or check your progress.")

\* A step in which process_message has just returned or raised.
ProcessMessageStep ==
    /\ result'.op = "process_message"
    /\ <<result, history>>' # <<result, history>>

\* C11: when the language-model client is absent or the call to the language
\* model fails, process_message raises nothing and returns the rule-based
\* response, a string, with an intent from the closed set, and records it as
\* the assistant's turn.
C11_FallbackOnUpstreamFailure ==
    [][(ProcessMessageStep /\ result'.upstream \in {"absent", "failed"})
        => /\ result'.raised = ""
           /\ result'.intent \in Intents
           /\ result'.response # None
           /\ result'.response
                = RuleBasedResponse(result'.intent,
                                    check_budget_status(transactions, goals,
                                                        result'.user_id, now,
                                                        settings))
           /\ history'[result'.user_id]
                = history[result'.user_id]
                  \o <<[role |-> "user", content |-> Text(result'.user_message)],
                       [role |-> "assistant", content |-> result'.response]>>]_vars

\* C11 (witness): the call to the language model failed and the user got the
\* rule-based report of the month's budget.
C11_Witness ==
    /\ result.op = "process_message"
    /\ result.upstream = "failed"
    /\ result.raised = ""
    /\ result.intent = "check_status"
    /\ Len(result.response) = 7

====
